---- MODULE Spec2Model ----
(***************************************************************************)
(* Model of the Bot Manager of ui/script.js: the process supervisor        *)
(* (installBot, startBot, stopBot), the batch operations (installAll,      *)
(* startAllBots, stopAllBots) with their timers, and the configuration     *)
(* store (loadConfig, saveConfig, saveBotConfig, updateBotSettings).       *)
(*                                                                         *)
(* Time is counted in milliseconds and advances one poll interval at a     *)
(* time.  setTimeout callbacks run in the order of their due times (ties   *)
(* in creation order), never before they are due, possibly later.          *)
(***************************************************************************)
EXTENDS Integers, Sequences, FiniteSets, Bags, TLC

VARIABLES
    status,            \* class of the status indicator of each worker
    runningProcesses,  \* script.js:7, the running-tracking flags
    cards,             \* workers that have a rendered card (status element)
    polls,             \* bag of install processes with a live setInterval
    timers,            \* pending setTimeout callbacks, in firing order
    completed,         \* installAll's closure counter, per invocation
    invoked,           \* number of installAll invocations so far
    signals,           \* 'all complete' alerts shown, per invocation
    progressFill,      \* percent shown in the progress bar
    progressBar,       \* display style of the progress bar
    last,              \* the handler that ran last and its outcome
    windows,           \* workers with a live bot window opened by startBot
    configFile,        \* global_config.json on disk
    settings,          \* <worker>\settings.json on disk, per worker
    fields,            \* username / password / type inputs of each card
    serverForm,        \* the inputs of the server configuration form
    booted,            \* window.onload has run
    cfgLast,           \* the configuration handler that ran last
    chart              \* a dataset of the charts page and its smoothed copy

supVars == <<status, runningProcesses, cards, polls, timers, completed,
             invoked, signals, progressFill, progressBar, last, windows>>

\* what the configuration handlers never touch
procVars == <<runningProcesses, polls, timers, completed, invoked, signals,
              progressFill, progressBar, last, windows>>

\* what the supervisor handlers never touch
cfgVars == <<configFile, settings, fields, serverForm, booted, cfgLast, chart>>

vars == <<supVars, cfgVars>>

-----------------------------------------------------------------------------
(* Program constants *)

botNames == <<"MC1", "MC2", "MC3", "MC4">>

BotSet == {botNames[i] : i \in 1..Len(botNames)}

InstallStaggerMs == 1000

StartStaggerMs == 500

SignalDelayMs == 1000

PollIntervalMs == 500

(* Bounds of the model *)

MaxBatches == 1

MaxOverlap == 2

MaxUserPolls == 1

MaxStartAlls == 1

-----------------------------------------------------------------------------
(* Helpers *)

IndexOf(w) == CHOOSE i \in 1..Len(botNames) : botNames[i] = w

NoEvent == [op |-> "none", bot |-> "-", res |-> "-", batch |-> 0, failed |-> {}]

Event(op, w, res, b) == [op |-> op, bot |-> w, res |-> res, batch |-> b, failed |-> {}]

\* updateStatus: the class is set only when the status element exists
updateStatus(st, botName, s) ==
    IF botName \in cards THEN [st EXCEPT ![botName] = s] ELSE st

\* a pending timeout: its delay and the time passed since it was set
Timer(kind, w, b, delay) ==
    [kind |-> kind, bot |-> w, batch |-> b, delay |-> delay, age |-> 0]

Left(t) == t.delay - t.age

\* setTimeout(fn, delay): the new timer runs after every pending timer that
\* is due no later than it
setTimeout(q, t) ==
    SelectSeq(q, LAMBDA x : Left(x) <= Left(t)) \o <<t>>
        \o SelectSeq(q, LAMBDA x : Left(x) > Left(t))

TimerDelay_None(i, stagger) == 0

TimerDelay_Reversed(i, stagger) == (Len(botNames) - i) * stagger

\* index * 1000 and index * 500, for the worker at position i of botNames
TimerDelay(i, stagger) == (i - 1) * stagger

\* the loop of installAll / startAllBots: one timer per worker
RECURSIVE ScheduleAll(_, _, _, _, _)
ScheduleAll(q, kind, b, stagger, i) ==
    IF i > Len(botNames) THEN q
    ELSE ScheduleAll(setTimeout(q, Timer(kind, botNames[i], b, TimerDelay(i, stagger))),
                     kind, b, stagger, i + 1)

Percent_Truncated(c) == (c \div Len(botNames)) * 100

\* Math.round((completed / botNames.length) * 100)
Percent(c) == (200 * c + Len(botNames)) \div (2 * Len(botNames))

Min(a, b) == IF a <= b THEN a ELSE b

MinOf(S) == CHOOSE i \in S : \A j \in S : i <= j

-----------------------------------------------------------------------------
(* installBot, script.js:365-410 *)

FsStates == {"noFolder", "noPackage", "ok"}

\* an install process and its poll: st is exec.Status (0 running, 1 done),
\* cb the installAll invocation whose continuation it carries (0: none)
Poll(w, cb) == [bot |-> w, st |-> 0, cb |-> cb]

\* the path installBot takes: fs is what FolderExists / FileExists answer,
\* launch is whether shell.Exec returned (TRUE) or threw (FALSE)
InstallOutcome(fs, launch) ==
    IF fs = "noFolder" THEN "noFolder"
    ELSE IF fs = "noPackage" THEN "noPackage"
    ELSE IF ~launch THEN "launchError"
    ELSE "launched"

installBotStatus_Early(st, w, out) ==
    IF out = "launchError"
    THEN updateStatus(updateStatus(st, w, "installing"), w, "stopped")
    ELSE updateStatus(st, w, "installing")

installBotStatus_NoCatch(st, w, out) ==
    IF out \in {"noFolder", "noPackage"} THEN st
    ELSE updateStatus(st, w, "installing")

installBotStatus(st, w, out) ==
    CASE out \in {"noFolder", "noPackage"} -> st
      [] out = "launchError" ->
            updateStatus(updateStatus(st, w, "installing"), w, "stopped")
      [] OTHER -> updateStatus(st, w, "installing")

installBotPolls(ps, w, cb, out) ==
    IF out = "launched" THEN ps (+) SetToBag({Poll(w, cb)}) ELSE ps

installBotCallsBack_Never(cb, out) == FALSE

\* whether installBot itself invokes the callback before it returns
installBotCallsBack(cb, out) == cb # 0 /\ out # "launched"

\* the continuation installAll passes to installBot, script.js:345-358
callbackCompleted(c, b) == [c EXCEPT ![b] = @ + 1]

callbackTimers_Early(q, c, b) ==
    IF c[b] >= Len(botNames) - 1
    THEN setTimeout(q, Timer("done", "-", b, SignalDelayMs))
    ELSE q

callbackTimers_Never(q, c, b) == q

callbackTimers(q, c, b) ==
    IF c[b] = Len(botNames)
    THEN setTimeout(q, Timer("done", "-", b, SignalDelayMs))
    ELSE q

\* installBot(w, callback) with the pending timers q; cb = 0: no callback
InstallBotStep(w, cb, fs, launch, q) ==
    LET out == InstallOutcome(fs, launch)
        called == installBotCallsBack(cb, out)
        c2 == IF called THEN callbackCompleted(completed, cb) ELSE completed
    IN  /\ status' = installBotStatus(status, w, out)
        /\ polls' = installBotPolls(polls, w, cb, out)
        /\ completed' = c2
        /\ progressFill' = IF called THEN Percent(c2[cb]) ELSE progressFill
        /\ timers' = IF called THEN callbackTimers(q, c2, cb) ELSE q
        /\ last' = Event("installBot", w, out, cb)
        /\ UNCHANGED cfgVars
        /\ UNCHANGED windows
        /\ UNCHANGED <<runningProcesses, cards, invoked, signals, progressBar>>

UserPolls ==
    LET S == {p \in BagToSet(polls) : p.cb = 0}
    IN  IF S = {} THEN 0 ELSE BagCardinality([p \in S |-> polls[p]])

\* the Install button of a card: installBot(botName)
InstallBot(w) ==
    /\ UserPolls < MaxUserPolls
    /\ \E fs \in FsStates, launch \in BOOLEAN :
          InstallBotStep(w, 0, fs, launch, timers)

\* an install process ends: exec.Status becomes 1
ProcExit ==
    \E p \in BagToSet(polls) :
        /\ p.st = 0
        /\ polls' = (polls (-) SetToBag({p})) (+) SetToBag({[p EXCEPT !.st = 1]})
        /\ UNCHANGED cfgVars
        /\ UNCHANGED windows
        /\ UNCHANGED <<status, runningProcesses, cards, timers, completed,
                       invoked, signals, progressFill, progressBar, last>>

pollCleared_Keeps(ps, p) == ps

\* clearInterval: the polls left after a tick of p's interval that saw
\* exec.Status === 1
pollCleared(ps, p) == ps (-) SetToBag({p})

pollStatus_FailedKeeps(st, p, exitCode) ==
    IF exitCode = 0 THEN updateStatus(st, p.bot, "stopped") ELSE st

pollStatus(st, p, exitCode) ==
    IF exitCode = 0 THEN updateStatus(st, p.bot, "stopped")
    ELSE updateStatus(st, p.bot, "stopped")

\* a tick of the setInterval of script.js:388-403 that observes the exit
\* (a tick that sees exec.Status === 0 changes nothing); exitCode is
\* exec.ExitCode, read by this tick only (1 stands for any nonzero code)
PollTick ==
    \E p \in BagToSet(polls), exitCode \in {0, 1} :
        /\ p.st = 1
        /\ polls' = pollCleared(polls, p)
        /\ status' = pollStatus(status, p, exitCode)
        /\ LET c2 == IF p.cb # 0 THEN callbackCompleted(completed, p.cb) ELSE completed
           IN  /\ completed' = c2
               /\ progressFill' = IF p.cb # 0 THEN Percent(c2[p.cb]) ELSE progressFill
               /\ timers' = IF p.cb # 0 THEN callbackTimers(timers, c2, p.cb) ELSE timers
        /\ last' = Event("poll", p.bot, IF exitCode = 0 THEN "success" ELSE "failed", p.cb)
        /\ UNCHANGED cfgVars
        /\ UNCHANGED windows
        /\ UNCHANGED <<runningProcesses, cards, invoked, signals, progressBar>>

-----------------------------------------------------------------------------
(* startBot, script.js:413-439, and stopBot, script.js:442-456 *)

StartOutcome_NoGuard(rp, w, folder, thrown) ==
    IF ~folder THEN "noFolder"
    ELSE IF thrown THEN "startError"
    ELSE "started"

\* folder: FolderExists(botPath); thrown: shell.Run threw
StartOutcome(rp, w, folder, thrown) ==
    IF ~folder THEN "noFolder"
    ELSE IF rp[w] THEN "alreadyRunning"
    ELSE IF thrown THEN "startError"
    ELSE "started"

startBotRunning_Early(rp, w, out) ==
    IF out \in {"started", "startError"} THEN [rp EXCEPT ![w] = TRUE] ELSE rp

startBotRunning(rp, w, out) ==
    IF out = "started" THEN [rp EXCEPT ![w] = TRUE] ELSE rp

startBotStatus(st, w, out) ==
    IF out = "started" THEN updateStatus(st, w, "running") ELSE st

\* start "<botName> Bot" cmd /k ...: a window titled after the worker opens
startBotWindows(win, w, out) ==
    IF out = "started" THEN [win EXCEPT ![w] = TRUE] ELSE win

StartBotStep(w, folder, thrown) ==
    LET out == StartOutcome(runningProcesses, w, folder, thrown)
    IN  /\ runningProcesses' = startBotRunning(runningProcesses, w, out)
        /\ status' = startBotStatus(status, w, out)
        /\ windows' = startBotWindows(windows, w, out)
        /\ last' = Event("startBot", w, out, 0)

StartBot(w) ==
    /\ \E folder \in BOOLEAN, thrown \in BOOLEAN : StartBotStep(w, folder, thrown)
    /\ UNCHANGED cfgVars
    /\ UNCHANGED <<cards, polls, timers, completed, invoked, signals,
                   progressFill, progressBar>>

\* thrown: shell.Run threw while issuing taskkill
stopBotRunning_Keeps(rp, w, thrown) == rp

stopBotRunning(rp, w, thrown) ==
    IF thrown THEN rp ELSE [rp EXCEPT ![w] = FALSE]

stopBotStatus(st, w, thrown) ==
    IF thrown THEN st ELSE updateStatus(st, w, "stopped")

\* the characters of the worker ids, and the title startBot gives the window
\* of a worker: '<botName> Bot'
botChars ==
    <<<<"M", "C", "1">>, <<"M", "C", "2">>, <<"M", "C", "3">>, <<"M", "C", "4">>>>

WindowTitle(w) == botChars[IndexOf(w)] \o <<" ", "B", "o", "t">>

KillPattern_AnyBot(w) == <<"M", "C">>

\* the filter of taskkill, WINDOWTITLE eq <botName> Bot*: what the title has
\* to begin with
KillPattern(w) == botChars[IndexOf(w)] \o <<" ", "B", "o", "t">>

Matches(title, pattern) ==
    Len(title) >= Len(pattern) /\ SubSeq(title, 1, Len(pattern)) = pattern

\* taskkill /F ends the windows the filter matches
stopBotWindows(win, w, thrown) ==
    IF thrown THEN win
    ELSE [v \in BotSet |-> win[v] /\ ~Matches(WindowTitle(v), KillPattern(w))]

stopBotPolls_Clears(ps, w) ==
    LET S == {p \in BagToSet(ps) : p.bot # w}
    IN  [p \in S |-> ps[p]]

\* stopBot has no handle on the interval of a running install
stopBotPolls(ps, w) == ps

StopBot(w) ==
    /\ \E thrown \in BOOLEAN :
          /\ runningProcesses' = stopBotRunning(runningProcesses, w, thrown)
          /\ status' = stopBotStatus(status, w, thrown)
          /\ windows' = stopBotWindows(windows, w, thrown)
          /\ last' = Event("stopBot", w, IF thrown THEN "stopError" ELSE "stopped", 0)
    /\ polls' = stopBotPolls(polls, w)
    /\ UNCHANGED cfgVars
    /\ UNCHANGED <<cards, timers, completed, invoked, signals,
                   progressFill, progressBar>>

\* the bot of a worker ends by itself, or its window is closed by hand
BotExit(w) ==
    /\ windows[w]
    /\ windows' = [windows EXCEPT ![w] = FALSE]
    /\ UNCHANGED cfgVars
    /\ UNCHANGED <<status, runningProcesses, cards, polls, timers, completed,
                   invoked, signals, progressFill, progressBar, last>>

-----------------------------------------------------------------------------
(* installAll, startAllBots, stopAllBots, script.js:330-362, 459-480 *)

\* n: the bound on the number of invocations
InstallAllUpTo(n) ==
    /\ invoked < n
    /\ invoked' = invoked + 1
    /\ timers' = ScheduleAll(timers, "install", invoked + 1, InstallStaggerMs, 1)
    /\ progressBar' = "block"
    /\ progressFill' = 0
    /\ completed' = Append(completed, 0)
    /\ signals' = Append(signals, 0)
    /\ last' = Event("installAll", "-", "scheduled", invoked + 1)
    /\ UNCHANGED cfgVars
    /\ UNCHANGED windows
    /\ UNCHANGED <<status, runningProcesses, cards, polls>>

InstallAll == InstallAllUpTo(MaxBatches)

StartTimers == {i \in 1..Len(timers) : timers[i].kind = "start"}

\* a number for a startAllBots invocation that none of the pending start
\* timers carries
StartInvocation ==
    MinOf(1..(Len(timers) + 1) \ {timers[i].batch : i \in StartTimers})

StartAllBots ==
    /\ Cardinality(StartTimers) + Len(botNames) <= MaxStartAlls * Len(botNames)
    /\ timers' = ScheduleAll(timers, "start", StartInvocation, StartStaggerMs, 1)
    /\ last' = Event("startAllBots", "-", "scheduled", 0)
    /\ UNCHANGED cfgVars
    /\ UNCHANGED windows
    /\ UNCHANGED <<status, runningProcesses, cards, polls, completed, invoked,
                   signals, progressFill, progressBar>>

RECURSIVE stopAllRunning(_, _, _)
stopAllRunning(rp, failed, i) ==
    IF i > Len(botNames) THEN rp
    ELSE stopAllRunning(stopBotRunning(rp, botNames[i], botNames[i] \in failed),
                        failed, i + 1)

RECURSIVE stopAllStatus(_, _, _)
stopAllStatus(st, failed, i) ==
    IF i > Len(botNames) THEN st
    ELSE stopAllStatus(stopBotStatus(st, botNames[i], botNames[i] \in failed),
                       failed, i + 1)

RECURSIVE stopAllWindows(_, _, _)
stopAllWindows(win, failed, i) ==
    IF i > Len(botNames) THEN win
    ELSE stopAllWindows(stopBotWindows(win, botNames[i], botNames[i] \in failed),
                        failed, i + 1)

RECURSIVE stopAllPolls(_, _)
stopAllPolls(ps, i) ==
    IF i > Len(botNames) THEN ps
    ELSE stopAllPolls(stopBotPolls(ps, botNames[i]), i + 1)

\* failed: the workers for which shell.Run threw
StopAllBots ==
    /\ \E failed \in SUBSET BotSet :
          /\ runningProcesses' = stopAllRunning(runningProcesses, failed, 1)
          /\ status' = stopAllStatus(status, failed, 1)
          /\ windows' = stopAllWindows(windows, failed, 1)
          /\ last' = [Event("stopAllBots", "-", "stopped", 0) EXCEPT !.failed = failed]
    /\ polls' = stopAllPolls(polls, 1)
    /\ UNCHANGED cfgVars
    /\ UNCHANGED <<cards, timers, completed, invoked, signals,
                   progressFill, progressBar>>

-----------------------------------------------------------------------------
(* Timers *)

Due == timers # <<>> /\ Left(Head(timers)) = 0

\* the timeout of script.js:344-359 runs installBot with the continuation
FireInstall ==
    /\ Due
    /\ Head(timers).kind = "install"
    /\ \E fs \in FsStates, launch \in BOOLEAN :
          InstallBotStep(Head(timers).bot, Head(timers).batch, fs, launch, Tail(timers))

\* the timeout of script.js:465-467 runs startBot
FireStart ==
    /\ Due
    /\ Head(timers).kind = "start"
    /\ \E folder \in BOOLEAN, thrown \in BOOLEAN :
          StartBotStep(Head(timers).bot, folder, thrown)
    /\ timers' = Tail(timers)
    /\ UNCHANGED cfgVars
    /\ UNCHANGED <<cards, polls, completed, invoked, signals,
                   progressFill, progressBar>>

\* the timeout of script.js:352-356: the 'all complete' signal
FireDone ==
    /\ Due
    /\ Head(timers).kind = "done"
    /\ timers' = Tail(timers)
    /\ progressBar' = "none"
    /\ signals' = [signals EXCEPT ![Head(timers).batch] = @ + 1]
    /\ last' = Event("allComplete", "-", "alert", Head(timers).batch)
    /\ UNCHANGED cfgVars
    /\ UNCHANGED windows
    /\ UNCHANGED <<status, runningProcesses, cards, polls, completed, invoked,
                   progressFill>>

\* one poll interval passes
Tick ==
    /\ timers' = [i \in 1..Len(timers) |->
                    [timers[i] EXCEPT !.age = Min(timers[i].delay, @ + PollIntervalMs)]]
    /\ timers' # timers
    /\ UNCHANGED cfgVars
    /\ UNCHANGED windows
    /\ UNCHANGED <<status, runningProcesses, cards, polls, completed, invoked,
                   signals, progressFill, progressBar, last>>

-----------------------------------------------------------------------------
(* The configuration documents                                             *)
(*                                                                         *)
(* A username or password is a sequence of pieces, a piece being a run of  *)
(* plain characters or one double quote.  A chat message is a sequence of  *)
(* lines (a message holding k line breaks has k + 1 lines), and so is the  *)
(* text of the chatMessages textarea.  A number is its integer part and    *)
(* its first decimal digit.                                                *)

Quote == "\""

Num(n) == [whole |-> n, tenths |-> 0]

DefaultIp == "play.pika-network.net"

DefaultVersion == "1.18.1"

DefaultDelay == 6

DefaultUsernames == <<"Bot1", "Bot2", "Bot3", "Bot4">>

\* createDefaultConfig's defaultConfig, script.js:43-57
DefaultAccounts ==
    [w \in BotSet |->
        [username |-> <<DefaultUsernames[IndexOf(w)]>>, password |-> <<>>,
         type |-> "offline"]]

DefaultServer ==
    [present |-> TRUE, ip |-> DefaultIp, version |-> DefaultVersion,
     chatMessages |-> <<<<"/login password">>, <<"/server survival">>, <<"/home base">>>>,
     repeat |-> TRUE, repeatDelay |-> Num(DefaultDelay)]

NoServer ==
    [present |-> FALSE, ip |-> "", version |-> "", chatMessages |-> <<>>,
     repeat |-> FALSE, repeatDelay |-> Num(0)]

NoAccounts == [w \in {} |-> <<>>]

OkFile(accounts, server) == [st |-> "ok", accounts |-> accounts, server |-> server]

AbsentFile == [st |-> "absent", accounts |-> NoAccounts, server |-> NoServer]

\* a file that JSON.parse rejects (an empty or truncated file among them)
MalformedFile == [st |-> "malformed", accounts |-> NoAccounts, server |-> NoServer]

DefaultConfig == OkFile(DefaultAccounts, DefaultServer)

\* the outcome of CreateTextFile / Write / Close: done, CreateTextFile threw
\* (the file is as it was), or Write threw (the file is left truncated)
IoOutcomes == {"ok", "createFailed", "writeFailed"}

WriteFile(old, new, io) ==
    CASE io = "ok" -> new
      [] io = "createFailed" -> old
      [] OTHER -> MalformedFile

\* botLogs: the log entry updateBotSettings wrote for each worker
NoBotLogs == [w \in BotSet |-> "none"]

NoCfgEvent ==
    [op |-> "none", bot |-> "-", res |-> "-", alert |-> "none", writes |-> 0,
     botLogs |-> NoBotLogs, pair |-> "none"]

CfgEvent(op, w, res, alert, writes) ==
    [op |-> op, bot |-> w, res |-> res, alert |-> alert, writes |-> writes,
     botLogs |-> NoBotLogs, pair |-> "none"]

\* the accounts whose values the save recorded in ev wrote into the document
EarlierWrote(ev, file) ==
    IF ev.op = "saveBotConfig" THEN {ev.bot} ELSE DOMAIN file.accounts

\* a save with outcome res that turns the document old into new right
\* after the save ev, and new lacks an account value ev wrote
LostUpdate(ev, old, new, res) ==
    /\ ev.res = "saved"
    /\ res = "saved"
    /\ \E v \in EarlierWrote(ev, old) :
          ~ /\ new.st = "ok"
            /\ v \in DOMAIN new.accounts
            /\ new.accounts[v] = old.accounts[v]

\* history: whether the save came right after another save, both having
\* saved, and whether it then kept what the other wrote
SavePair(ev, old, new, res) ==
    IF ~(ev.op \in {"saveConfig", "saveBotConfig"} /\ ev.res = "saved" /\ res = "saved")
    THEN "none"
    ELSE IF LostUpdate(ev, old, new, res) THEN "lost" ELSE "kept"

-----------------------------------------------------------------------------
(* renderBotConfigs and loadServerConfigFromData, script.js:92-152 *)

\* the value of an input built as value="' + s + '"': what precedes the
\* first double quote of s
AttrValue(s) ==
    LET quotes == {i \in 1..Len(s) : s[i] = Quote}
    IN  IF quotes = {} THEN s ELSE SubSeq(s, 1, MinOf(quotes) - 1)

\* the value of the select: the option marked selected, else the first one
SelectValue(t) ==
    IF t \in {"offline", "mojang", "microsoft"} THEN t ELSE "offline"

renderBotConfigs(accounts) ==
    [w \in DOMAIN accounts |->
        [username |-> AttrValue(accounts[w].username),
         password |-> AttrValue(accounts[w].password),
         type |-> SelectValue(accounts[w].type)]]

OrDefault(v, d) == IF v = "" THEN d ELSE v

\* a number shown in an input, and parseInt of the text of an input
NumText(n) == n

ParseInt(t) == [whole |-> t.whole, tenths |-> 0]

\* chatMessages.join('\n')
RECURSIVE Join(_)
Join(msgs) == IF msgs = <<>> THEN <<>> ELSE Head(msgs) \o Join(Tail(msgs))

loadServerConfigFromData(form, server) ==
    [form EXCEPT
        !.serverIP = OrDefault(server.ip, DefaultIp),
        !.serverVersion = OrDefault(server.version, DefaultVersion),
        !.repeatMessages = IF server.repeat THEN "true" ELSE "false",
        !.repeatDelay =
            NumText(IF server.repeatDelay = Num(0) THEN Num(DefaultDelay)
                    ELSE server.repeatDelay),
        !.chatMessages =
            IF Len(server.chatMessages) > 0 THEN Join(server.chatMessages)
            ELSE form.chatMessages]

\* the form after loadServerConfig / createDefaultConfig tried to fill it:
\* without the inputs getElementById(...).value throws and the catch logs
FormLoaded(form, server) ==
    IF form.present /\ server.present THEN loadServerConfigFromData(form, server)
    ELSE form

-----------------------------------------------------------------------------
(* window.onload: loadConfig and loadServerConfig, script.js:10-89 *)

LoadResult_Silent(file, io) ==
    IF file.st = "absent" THEN (IF io = "ok" THEN "created" ELSE "createError")
    ELSE "loaded"

\* what loadConfig logs last: success, or the error of its catch
LoadResult(file, io) ==
    CASE file.st = "absent" -> IF io = "ok" THEN "created" ELSE "createError"
      [] file.st = "malformed" -> "parseError"
      [] OTHER -> "loaded"

\* the shared file after loadConfig: only an absent file is written
loadConfigFile_Always(file, io) == WriteFile(file, DefaultConfig, io)

loadConfigFile(file, io) ==
    IF file.st = "absent" THEN WriteFile(file, DefaultConfig, io) ELSE file

loadConfigWrites(file) == IF file.st = "absent" THEN 1 ELSE 0

\* the cards after loadConfig
loadConfigFields(file, io, old) ==
    CASE file.st = "absent" ->
            IF io = "ok" THEN renderBotConfigs(DefaultAccounts) ELSE old
      [] file.st = "malformed" -> old
      [] OTHER -> renderBotConfigs(file.accounts)

\* the server form after loadConfig (createDefaultConfig fills it) and then
\* loadServerConfig, which reads the file again
loadServerForm(file, io, form) ==
    LET f1 == IF file.st = "absent" /\ io = "ok"
              THEN FormLoaded(form, DefaultServer) ELSE form
        file2 == loadConfigFile(file, io)
    IN  IF file2.st = "ok" THEN FormLoaded(f1, file2.server) ELSE f1

OnLoad ==
    /\ ~booted
    /\ booted' = TRUE
    /\ \E io \in (IF configFile.st = "absent" THEN IoOutcomes ELSE {"ok"}) :
          /\ configFile' = loadConfigFile(configFile, io)
          /\ fields' = loadConfigFields(configFile, io, fields)
          /\ serverForm' = loadServerForm(configFile, io, serverForm)
          /\ cfgLast' = CfgEvent("onload", "-", LoadResult(configFile, io), "none",
                                 loadConfigWrites(configFile))
    /\ cards' = DOMAIN fields'
    /\ status' = [w \in BotSet |-> "stopped"]
    /\ UNCHANGED <<settings, chart>>
    /\ UNCHANGED procVars

-----------------------------------------------------------------------------
(* saveConfig and updateBotSettings, script.js:167-245, 292-327 *)

\* a line that the filter of script.js:211-213 drops: trim() leaves nothing
IsBlank(line) == line \in {"", " "}

\* chatMessages.value.split('\n').filter(...): one message per kept line
SplitLines(text) ==
    LET kept == SelectSeq(text, LAMBDA line : ~IsBlank(line))
    IN  [i \in 1..Len(kept) |-> <<kept[i]>>]

saveConfigAccounts_SkipsLast(f) ==
    [w \in (BotSet \ {botNames[Len(botNames)]}) \cap DOMAIN f |-> f[w]]

\* config.accounts: the workers of botNames whose three inputs exist
saveConfigAccounts(f) == [w \in BotSet \cap DOMAIN f |-> f[w]]

saveConfigServer(form) ==
    [present |-> TRUE, ip |-> form.serverIP, version |-> form.serverVersion,
     chatMessages |-> SplitLines(form.chatMessages),
     repeat |-> (form.repeatMessages = "true"),
     repeatDelay |-> ParseInt(form.repeatDelay)]

\* a settings.json: st, whether it holds the server block and the
\* utils['chat-messages'] block, the five propagated values, and the keys
\* propagation does not name: server.port, a key of the chat-messages block,
\* another key of utils and a top-level key (0: the key is not there)
SettingsDoc(st, hasServer, hasChat, extra) ==
    [st |-> st, hasServer |-> hasServer, hasChat |-> hasChat,
     ip |-> "old.example.org", version |-> "1.8.9",
     messages |-> <<<<"/old">>>>, repeat |-> FALSE, repeatDelay |-> Num(9),
     port |-> IF hasServer THEN 25565 * extra ELSE 0,
     chatExtra |-> IF hasChat THEN 7 * extra ELSE 0,
     utilsOther |-> 3 * extra,
     customField |-> 42 * extra]

\* whether the body of the loop of updateBotSettings reaches the write
Propagates(doc) == doc.st = "ok" /\ doc.hasServer /\ doc.hasChat

mergeServer_Rebuild(doc, server) ==
    [SettingsDoc("ok", TRUE, TRUE, 0) EXCEPT
        !.ip = server.ip, !.version = server.version,
        !.messages = server.chatMessages, !.repeat = server.repeat,
        !.repeatDelay = server.repeatDelay]

mergeServer_NoDelay(doc, server) ==
    [doc EXCEPT !.ip = server.ip, !.version = server.version,
                !.messages = server.chatMessages, !.repeat = server.repeat]

\* the five assignments of script.js:309-315
mergeServer(doc, server) ==
    [doc EXCEPT !.ip = server.ip, !.version = server.version,
                !.messages = server.chatMessages, !.repeat = server.repeat,
                !.repeatDelay = server.repeatDelay]

MalformedSettings(doc) == [doc EXCEPT !.st = "malformed"]

updateOne_Partial(doc, server, io) ==
    IF doc.st = "ok" /\ doc.hasServer /\ ~doc.hasChat /\ io = "ok"
    THEN [doc EXCEPT !.ip = server.ip, !.version = server.version]
    ELSE IF ~Propagates(doc) THEN doc
    ELSE CASE io = "ok" -> mergeServer(doc, server)
           [] io = "createFailed" -> doc
           [] OTHER -> MalformedSettings(doc)

\* one round of the loop: an absent, malformed or incomplete document is
\* left alone; io is the outcome of writing the merged document
updateOne(doc, server, io) ==
    IF ~Propagates(doc) THEN doc
    ELSE CASE io = "ok" -> mergeServer(doc, server)
           [] io = "createFailed" -> doc
           [] OTHER -> MalformedSettings(doc)

updateBotSettings_Aborts(docs, server, ios) ==
    [w \in BotSet |->
        IF \E v \in BotSet :
               /\ IndexOf(v) < IndexOf(w)
               /\ docs[v].st # "absent"
               /\ ~(Propagates(docs[v]) /\ ios[v] = "ok")
        THEN docs[w]
        ELSE updateOne(docs[w], server, ios[w])]

updateBotSettings(docs, server, ios) ==
    [w \in BotSet |-> updateOne(docs[w], server, ios[w])]

\* the log entry of one round: none when FileExists is false (continue),
\* 'Settings updated' after the write, else the error of the catch
updateLog(doc, io) ==
    IF doc.st = "absent" THEN "none"
    ELSE IF Propagates(doc) /\ io = "ok" THEN "success"
    ELSE "error"

updateLogs(docs, ios) == [w \in BotSet |-> updateLog(docs[w], ios[w])]

SaveResult(form, io) ==
    IF ~form.present THEN "noServerFields"
    ELSE IF io # "ok" THEN "saveError"
    ELSE "saved"

\* the outcomes of writing the settings.json files of the workers ws
SettingsIos(ws) ==
    {[w \in BotSet |-> IF w \in failing THEN how ELSE "ok"] :
        failing \in SUBSET ws, how \in IoOutcomes \ {"ok"}}

\* the workers whose settings.json a save writes
Written(docs, form, io) ==
    IF SaveResult(form, io) = "saved"
    THEN {w \in BotSet : Propagates(docs[w])}
    ELSE {}

\* io: the outcome of writing global_config.json
SaveConfig ==
    /\ booted
    /\ \E io \in (IF serverForm.present THEN IoOutcomes ELSE {"ok"}) :
       \E ios \in SettingsIos(Written(settings, serverForm, io)) :
          LET res == SaveResult(serverForm, io)
              doc == OkFile(saveConfigAccounts(fields), saveConfigServer(serverForm))
          IN  /\ configFile' = IF res = "noServerFields" THEN configFile
                               ELSE WriteFile(configFile, doc, io)
              /\ settings' = IF res = "saved"
                             THEN updateBotSettings(settings, doc.server, ios)
                             ELSE settings
              /\ cfgLast' =
                    [CfgEvent("saveConfig", "-", res,
                              IF res = "saved" THEN "success" ELSE "failure",
                              IF res = "noServerFields" THEN 0 ELSE 1)
                        EXCEPT !.botLogs = IF res = "saved"
                                           THEN updateLogs(settings, ios)
                                           ELSE NoBotLogs,
                               !.pair = SavePair(cfgLast, configFile,
                                                 configFile', res)]
    /\ UNCHANGED <<fields, serverForm, booted, cards, status, chart>>
    /\ UNCHANGED procVars


-----------------------------------------------------------------------------
(* saveBotConfig, script.js:248-289 *)

SaveBotResult(file, f, w, io) ==
    IF file.st = "absent" THEN "readError"
    ELSE IF file.st = "malformed" THEN "parseError"
    ELSE IF w \notin DOMAIN f THEN "noFields"
    ELSE IF io # "ok" THEN "saveError"
    ELSE "saved"

saveBotDoc_Stale(file, f, w) ==
    [DefaultConfig EXCEPT !.accounts =
        [v \in DOMAIN DefaultConfig.accounts \cup {w} |->
            IF v = w THEN f[w] ELSE DefaultConfig.accounts[v]]]

saveBotDoc_Only(file, f, w) ==
    [file EXCEPT !.accounts = [v \in {w} |-> f[w]]]

\* config.accounts[botName] = {...}: the document read, with one entry set
saveBotDoc(file, f, w) ==
    [file EXCEPT !.accounts =
        [v \in DOMAIN file.accounts \cup {w} |->
            IF v = w THEN f[w] ELSE file.accounts[v]]]

saveBotConfigFile(file, f, w, io) ==
    IF SaveBotResult(file, f, w, "ok") = "saved"
    THEN WriteFile(file, saveBotDoc(file, f, w), io)
    ELSE file

SaveBotConfig(w) ==
    /\ booted
    /\ w \in cards
    /\ \E io \in IoOutcomes :
          LET res == SaveBotResult(configFile, fields, w, io)
          IN  /\ configFile' = saveBotConfigFile(configFile, fields, w, io)
              /\ cfgLast' =
                    [CfgEvent("saveBotConfig", w, res,
                              IF res = "saved" THEN "success" ELSE "failure",
                              IF res \in {"saved", "saveError"} THEN 1 ELSE 0)
                        EXCEPT !.pair = SavePair(cfgLast, configFile,
                                                 configFile', res)]
    /\ UNCHANGED <<settings, fields, serverForm, booted, cards, status, chart>>
    /\ UNCHANGED procVars

-----------------------------------------------------------------------------
(* The documents and forms the configuration store is checked on *)

-----------------------------------------------------------------------------
(* smoothChartData, part_001:196-212 *)

MaxPoints == 4

\* smoothingFactor as a fraction FactorNum / FactorDen; the default 0.2 is 1/5
FactorDen == 5

RECURSIVE Pow(_, _)
Pow(b, e) == IF e = 0 THEN 1 ELSE b * Pow(b, e - 1)

\* numbers are counted in units of 1 / ChartScale, so that every weighted
\* sum of the loop is a whole number of units
ChartScale == Pow(FactorDen, MaxPoints)

\* the argument: null (or undefined), or an array with its elements
Null == [null |-> TRUE, items |-> <<>>]

Array(items) == [null |-> FALSE, items |-> items]

\* the loop for (let i = 1; i < data.length - 1; i++), i counted from 1 here
RECURSIVE smoothLoop(_, _, _, _)
smoothLoop(data, num, smoothedData, i) ==
    IF i > Len(data) - 1 THEN smoothedData
    ELSE LET previous == smoothedData[i - 1]
             current == data[i]
             smoothed == (previous * (FactorDen - num) + current * num) \div FactorDen
         IN  smoothLoop(data, num, Append(smoothedData, smoothed), i + 1)

smoothChartData_InPlace(data, num) ==
    IF data.null \/ Len(data.items) <= 2
    THEN [out |-> data, data |-> data, same |-> TRUE]
    ELSE LET res == Array(Append(smoothLoop(data.items, num, <<data.items[1]>>, 2),
                                 data.items[Len(data.items)]))
         IN  [out |-> res, data |-> res, same |-> TRUE]

\* out: what is returned; data: the elements of the argument after the
\* call; same: the array returned is the argument itself
smoothChartData(data, num) ==
    IF data.null \/ Len(data.items) <= 2
    THEN [out |-> data, data |-> data, same |-> TRUE]
    ELSE [out |-> Array(Append(smoothLoop(data.items, num, <<data.items[1]>>, 2),
                               data.items[Len(data.items)])),
          data |-> data, same |-> FALSE]

NoChart ==
    [given |-> Null, num |-> 1, data |-> Null, out |-> Null, same |-> FALSE,
     called |-> FALSE]

\* dataset.data = smoothChartData(dataset.data, smoothingFactor)
SmoothChart ==
    /\ ~chart.called
    /\ LET r == smoothChartData(chart.given, chart.num)
       IN  chart' = [chart EXCEPT !.data = r.data, !.out = r.out,
                                  !.same = r.same, !.called = TRUE]
    /\ UNCHANGED supVars
    /\ UNCHANGED <<configFile, settings, fields, serverForm, booted, cfgLast>>

RECURSIVE SeqsUpTo(_, _)
SeqsUpTo(S, n) ==
    IF n = 0 THEN {<<>>}
    ELSE LET shorter == SeqsUpTo(S, n - 1)
         IN  shorter \cup {Append(q, x) : q \in shorter, x \in S}

ChartValues == {0, ChartScale, 3 * ChartScale}

ChartInputs == {Null} \cup {Array(q) : q \in SeqsUpTo(ChartValues, MaxPoints)}

ChartFactors == {1, 2}

MaxMessages == 2

MaxVaried == 2

AbsentSettings == [SettingsDoc("absent", FALSE, FALSE, 0) EXCEPT !.ip = "", !.version = "",
                      !.messages = <<>>, !.repeatDelay = Num(0)]

SettingsDocs ==
    {AbsentSettings,
     SettingsDoc("malformed", FALSE, FALSE, 0),
     SettingsDoc("ok", FALSE, TRUE, 1),
     SettingsDoc("ok", TRUE, FALSE, 1),
     SettingsDoc("ok", TRUE, TRUE, 0),
     SettingsDoc("ok", TRUE, TRUE, 1)}

\* the first MaxVaried workers have any of the documents, the others none
SettingsInit ==
    {d \in [BotSet -> SettingsDocs] :
        \A w \in BotSet : IndexOf(w) > MaxVaried => d[w] = AbsentSettings}

Messages == {<<"/login">>, <<"">>, <<" ">>, <<"/a", "/b">>}

MessageSeqs == UNION {[1..n -> Messages] : n \in 0..MaxMessages}

Usernames == {<<"Bot1">>, <<"al", Quote, "ice">>}

Passwords == {<<>>, <<"secret">>}

Types == {"offline", "microsoft", "legacy"}

Ips == {"", "mc.example.org"}

Versions == {"", "1.20.1"}

Delays == {Num(0), Num(3), [whole |-> 2, tenths |-> 5]}

AccountIdSets == {BotSet, {botNames[1], botNames[2]}, BotSet \cup {"MC5"}}

OtherAccount(w) ==
    IF w \in BotSet THEN DefaultAccounts[w]
    ELSE [username |-> <<"Bot5">>, password |-> <<>>, type |-> "offline"]

AccountDocs ==
    {[w \in ids |-> IF w = botNames[1] THEN a ELSE OtherAccount(w)] :
        ids \in AccountIdSets,
        a \in [username : Usernames, password : Passwords, type : Types]}

ServerDocs ==
    [present : {TRUE}, ip : Ips, version : Versions, chatMessages : MessageSeqs,
     repeat : BOOLEAN, repeatDelay : Delays]

LoadFiles ==
    {AbsentFile, MalformedFile}
        \cup {OkFile(a, srv) : a \in AccountDocs, srv \in ServerDocs}

\* the form as the page holds it before any script ran; text is the content
\* of the chatMessages textarea in the page
PageForm(present, text) ==
    [present |-> present, serverIP |-> "", serverVersion |-> "",
     chatMessages |-> text, repeatMessages |-> "true", repeatDelay |-> Num(0)]

TextareaDefaults == {<<"">>, <<"/help">>}

\* what a user can have typed into the server form
EditedForms ==
    {PageForm(FALSE, <<"">>)}
        \cup {[present |-> TRUE, serverIP |-> "mc.example.org", serverVersion |-> "1.20.1",
                chatMessages |-> text, repeatMessages |-> rep, repeatDelay |-> Num(3)] :
                  text \in {<<"/login">>, <<"/a", "", "/b">>}, rep \in {"true", "false"}}

EditedAccount == [username |-> <<"alice">>, password |-> <<"secret">>, type |-> "microsoft"]

\* the cards: all four as rendered from the default accounts, with the first
\* one edited or not, or only the first two (a file that held two accounts)
EditedFields ==
    {renderBotConfigs(DefaultAccounts),
     [renderBotConfigs(DefaultAccounts) EXCEPT ![botNames[1]] = EditedAccount],
     [w \in {botNames[1], botNames[2]} |-> EditedAccount]}

-----------------------------------------------------------------------------
(* The supervisor and the batch operations *)

\* no process, no timer and no batch
InitProc ==
    /\ runningProcesses = [w \in BotSet |-> FALSE]
    /\ polls = EmptyBag
    /\ timers = <<>>
    /\ completed = <<>>
    /\ invoked = 0
    /\ signals = <<>>
    /\ progressFill = 0
    /\ progressBar = "none"
    /\ last = NoEvent
    /\ windows = [w \in BotSet |-> FALSE]

\* the page before window.onload, over the files it may find
InitLoad ==
    /\ InitProc
    /\ status = [w \in BotSet |-> "stopped"]
    /\ cards = {}
    /\ configFile \in LoadFiles
    /\ settings = [w \in BotSet |-> AbsentSettings]
    /\ fields = NoAccounts
    /\ serverForm \in {PageForm(TRUE, text) : text \in TextareaDefaults}
    /\ booted = FALSE
    /\ cfgLast = NoCfgEvent
    /\ chart = NoChart

NextLoad ==
    \/ OnLoad
    \/ SaveConfig

SpecLoad == InitLoad /\ [][NextLoad]_vars

\* the page after window.onload and the user's edits, over the forms and
\* the files a save may find
InitSave ==
    /\ InitProc
    /\ status = [w \in BotSet |-> "stopped"]
    /\ fields \in EditedFields
    /\ cards = DOMAIN fields
    /\ configFile \in {DefaultConfig, AbsentFile, MalformedFile}
    /\ settings \in SettingsInit
    /\ serverForm \in EditedForms
    /\ booted = TRUE
    /\ cfgLast = NoCfgEvent
    /\ chart = NoChart

NextSave ==
    \/ SaveConfig
    \/ \E w \in BotSet : SaveBotConfig(w)

SpecSave == InitSave /\ [][NextSave]_vars

\* the saves on a page loaded from a document that holds the four accounts
InitSaveAll ==
    /\ InitSave
    /\ configFile = DefaultConfig
    /\ DOMAIN fields = BotSet

SpecSaveAll == InitSaveAll /\ [][NextSave]_vars

InitChart ==
    /\ InitProc
    /\ status = [w \in BotSet |-> "stopped"]
    /\ cards = {}
    /\ configFile = DefaultConfig
    /\ settings = [w \in BotSet |-> AbsentSettings]
    /\ fields = NoAccounts
    /\ serverForm = PageForm(FALSE, <<"">>)
    /\ booted = FALSE
    /\ cfgLast = NoCfgEvent
    /\ \E data \in ChartInputs, num \in ChartFactors :
          chart = [NoChart EXCEPT !.given = data, !.data = data, !.num = num]

NextChart == SmoothChart

SpecChart == InitChart /\ [][NextChart]_vars

\* the save buttons are pressed again and again
SpecSaveFair ==
    /\ InitSave
    /\ [][NextSave]_vars
    /\ WF_vars(SaveConfig)
    /\ \A w \in BotSet : WF_vars(SaveBotConfig(w))

\* the page after window.onload found no file and created the default one
Init ==
    /\ status = [w \in BotSet |-> "stopped"]
    /\ runningProcesses = [w \in BotSet |-> FALSE]
    /\ cards = BotSet
    /\ polls = EmptyBag
    /\ timers = <<>>
    /\ completed = <<>>
    /\ invoked = 0
    /\ signals = <<>>
    /\ progressFill = 0
    /\ progressBar = "none"
    /\ last = NoEvent
    /\ windows = [w \in BotSet |-> FALSE]
    /\ configFile = DefaultConfig
    /\ settings = [w \in BotSet |-> SettingsDoc("ok", TRUE, TRUE, 1)]
    /\ fields = renderBotConfigs(DefaultAccounts)
    /\ serverForm = loadServerConfigFromData(PageForm(TRUE, <<"">>), DefaultServer)
    /\ booted = TRUE
    /\ cfgLast = NoCfgEvent
    /\ chart = NoChart

\* the supervisor: the buttons of the cards and the install processes
Next ==
    \/ \E w \in BotSet : InstallBot(w)
    \/ \E w \in BotSet : StartBot(w)
    \/ \E w \in BotSet : StopBot(w)
    \/ ProcExit
    \/ PollTick

Spec == Init /\ [][Next]_vars

\* installAll with its timers and install processes
NextBatch ==
    \/ InstallAll
    \/ FireInstall
    \/ FireDone
    \/ ProcExit
    \/ PollTick
    \/ Tick

SpecBatch == Init /\ [][NextBatch]_vars

\* installAll pressed again while an earlier invocation is under way
NextOverlap ==
    \/ InstallAllUpTo(MaxOverlap)
    \/ FireInstall
    \/ FireDone
    \/ ProcExit
    \/ PollTick
    \/ Tick

SpecOverlap == Init /\ [][NextOverlap]_vars

\* installAll, and the buttons that install and stop while it runs
NextBatchOps ==
    \/ InstallAll
    \/ FireInstall
    \/ FireDone
    \/ ProcExit
    \/ PollTick
    \/ Tick
    \/ \E w \in BotSet : InstallBot(w)
    \/ \E w \in BotSet : StopBot(w)
    \/ StopAllBots

SpecBatchOps == Init /\ [][NextBatchOps]_vars

\* installAll while the stop buttons are pressed
NextBatchStop ==
    \/ InstallAll
    \/ FireInstall
    \/ FireDone
    \/ ProcExit
    \/ PollTick
    \/ Tick
    \/ \E w \in BotSet : StopBot(w)
    \/ StopAllBots

\* time passes, a due timer fires, an interval whose process has exited ticks
\* (the event loop of the page), and every install process exits
FairInstall ==
    /\ WF_vars(Tick)
    /\ WF_vars(FireInstall)
    /\ WF_vars(FireDone)
    /\ WF_vars(PollTick)
    /\ WF_vars(ProcExit)

SpecBatchStopFair == Init /\ [][NextBatchStop]_vars /\ FairInstall

SpecBatchFair == Init /\ [][NextBatch]_vars /\ FairInstall

\* startAllBots with its timers, and the buttons that start and stop
NextStart ==
    \/ StartAllBots
    \/ FireStart
    \/ Tick
    \/ \E w \in BotSet : StartBot(w)
    \/ \E w \in BotSet : StopBot(w)
    \/ StopAllBots

SpecStart == Init /\ [][NextStart]_vars

\* the start and stop buttons while bots end by themselves
NextWindows ==
    \/ \E w \in BotSet : StartBot(w)
    \/ \E w \in BotSet : StopBot(w)
    \/ \E w \in BotSet : BotExit(w)
    \/ StopAllBots

SpecWindows == Init /\ [][NextWindows]_vars

\* every handler that can raise an error, run from the loaded page: the
\* supervisor and the configuration store share no state, so the handlers of
\* the one are explored while the other is as loaded
NextErrors ==
    \/ /\ cfgLast = NoCfgEvent
       /\ \/ Next
          \/ StopAllBots
    \/ /\ last = NoEvent
       /\ \/ SaveConfig
          \/ \E w \in BotSet : SaveBotConfig(w)

SpecErrors == Init /\ [][NextErrors]_vars

-----------------------------------------------------------------------------
(* Properties of the supervisor *)

\* the step is a run of handler op for worker w (every handler records itself
\* in last; a run that changes nothing at all is a stuttering step)
Ran(op, w) == last'.op = op /\ last'.bot = w /\ last' # last

\* C1: after stopBot(w) returns, the status of w is 'stopped' and w is not
\* tracked as running, also when issuing the kill command failed.
C1_StopAlwaysStops ==
    \A w \in BotSet :
        (last.op = "stopBot" /\ last.bot = w)
            => (status[w] = "stopped" /\ ~runningProcesses[w])

\* C2: the poll tick that observes the exit of the install process of w sets
\* status(w) to 'stopped' for exit code 0 and for a nonzero exit code alike,
\* changes no other status and no running-tracking flag, and then holds no
\* poll of that process any more, so w is as installable and startable as
\* it was before the install.
C2_PollStops ==
    [][\A w \in BotSet :
          Ran("poll", w) =>
              /\ last'.res \in {"success", "failed"}
              /\ status'[w] = "stopped"
              /\ \A v \in BotSet \ {w} : status'[v] = status[v]
              /\ runningProcesses' = runningProcesses
              /\ BagCardinality(polls') = BagCardinality(polls) - 1]_vars

C2_Witness ==
    \E w \in BotSet :
        /\ last = Event("poll", w, "failed", 0)
        /\ status[w] = "stopped"
        /\ ~runningProcesses[w]

C8_MissingFolderNoEffect ==
    [][\A w \in BotSet :
          (Ran("installBot", w) /\ last'.res \in {"noFolder", "noPackage"}) =>
              /\ status' = status
              /\ runningProcesses' = runningProcesses
              /\ polls' = polls]_vars

C8_Witness ==
    \E w \in BotSet :
        /\ last = Event("installBot", w, "noPackage", 0)
        /\ status[w] = "running"
        /\ polls = EmptyBag

-----------------------------------------------------------------------------
(* Properties of installAll *)

InstallTimers(q, b) == {i \in 1..Len(q) : q[i].kind = "install" /\ q[i].batch = b}

DoneTimers(q, b) == {i \in 1..Len(q) : q[i].kind = "done" /\ q[i].batch = b}

PollsOf(b) ==
    LET S == {p \in BagToSet(polls) : p.cb = b}
    IN  IF S = {} THEN 0 ELSE BagCardinality([p \in S |-> polls[p]])

\* the pending install timer of invocation b for worker w is gone after the step
Issued(b, w) ==
    /\ \E i \in InstallTimers(timers, b) : timers[i].bot = w
    /\ ~ \E i \in InstallTimers(timers', b) : timers'[i].bot = w

\* C5: within one installAll invocation the install of the worker at index i
\* is issued no earlier than i x 1000 ms after the invocation, and not before
\* the install of any worker of a smaller index.
C5_StaggerOrder ==
    [][\A b \in 1..invoked : \A w \in BotSet :
          Issued(b, w) =>
              /\ \A i \in InstallTimers(timers, b) :
                    timers[i].bot = w =>
                        timers[i].age >= (IndexOf(w) - 1) * InstallStaggerMs
              /\ \A i \in InstallTimers(timers, b) :
                    IndexOf(timers[i].bot) >= IndexOf(w)
              /\ last'.op = "installBot" /\ last'.bot = w /\ last'.batch = b]_vars

\* the install of MC2 is issued while the install of MC1 is still running
C5_Witness ==
    /\ last.op = "installBot" /\ last.bot = botNames[2] /\ last.batch = 1
    /\ \E p \in BagToSet(polls) : p.bot = botNames[1] /\ p.cb = 1 /\ p.st = 0

\* C9: every install issued with a continuation has either invoked it exactly
\* once or still has its poll running: per installAll invocation, the
\* continuations invoked, the polls in flight and the installs not yet issued
\* add up to the number of workers.
C9_CallbackOnce ==
    \A b \in 1..invoked :
        completed[b] + PollsOf(b) + Cardinality(InstallTimers(timers, b))
            = Len(botNames)

\* all four have reported, by an observed exit and by a failure inside installBot
C9_Witness ==
    /\ invoked >= 1
    /\ completed[1] = Len(botNames)
    /\ last.op = "installBot" /\ last.res = "launchError"

\* C10: the 'all complete' signal of an installAll invocation is scheduled
\* when the fourth continuation is invoked and fires once: while fewer than
\* four have reported it is neither pending nor shown, and once four have
\* reported it is either pending or has been shown exactly once.
C10_SignalOnce ==
    \A b \in 1..invoked :
        /\ completed[b] <= Len(botNames)
        /\ completed[b] < Len(botNames) =>
              (signals[b] = 0 /\ DoneTimers(timers, b) = {})
        /\ completed[b] = Len(botNames) =>
              signals[b] + Cardinality(DoneTimers(timers, b)) = 1

C10_Witness ==
    /\ invoked >= 1
    /\ signals[1] = 1
    /\ completed[1] = Len(botNames)


PollsFor(w) ==
    LET S == {p \in BagToSet(polls) : p.bot = w}
    IN  IF S = {} THEN 0 ELSE BagCardinality([p \in S |-> polls[p]])

\* C14: no worker has an install in flight while it is tracked as running.
C14_InstallRunExclusive ==
    \A w \in BotSet : ~(runningProcesses[w] /\ PollsFor(w) > 0)

\* what the catch of each handler does with an error raised while the
\* handler runs, and how a loop over the workers goes on after it:
\*   installBot: shell.Exec throws; startBot, stopBot: shell.Run throws;
\*   stopAllBots: shell.Run throws for some workers; saveConfig and
\*   saveBotConfig: the file cannot be read, parsed or written;
\*   updateBotSettings: a settings.json cannot be written
Caught ==
    /\ \A w \in BotSet :
          /\ (Ran("installBot", w) /\ last'.res = "launchError") =>
                /\ status'[w] = "stopped"
                /\ polls' = polls
                /\ runningProcesses' = runningProcesses
          /\ (Ran("startBot", w) /\ last'.res = "startError") =>
                /\ status' = status
                /\ runningProcesses' = runningProcesses
          /\ (Ran("stopBot", w) /\ last'.res = "stopError") =>
                /\ status' = status
                /\ runningProcesses' = runningProcesses
          /\ (last'.op = "stopAllBots" /\ last' # last) =>
                IF w \in last'.failed
                THEN status'[w] = status[w]
                        /\ runningProcesses'[w] = runningProcesses[w]
                ELSE status'[w] = "stopped" /\ ~runningProcesses'[w]
          /\ (cfgLast' # cfgLast /\ cfgLast'.op = "saveConfig"
                  /\ cfgLast'.botLogs[w] = "error") =>
                /\ cfgLast'.res = "saved"
                /\ settings'[w].ip = settings[w].ip
                /\ \A v \in BotSet :
                      cfgLast'.botLogs[v] = "success" =>
                          settings'[v].ip = serverForm.serverIP
    /\ (cfgLast' # cfgLast /\ cfgLast'.res \in {"saveError", "readError", "parseError"}) =>
          /\ cfgLast'.alert = "failure"
          /\ settings' = settings

\* the error entry of a configuration handler names a worker
Named ==
    (cfgLast' # cfgLast /\ cfgLast'.res \in {"saveError", "readError", "parseError"})
        => cfgLast'.bot \in BotSet

C19_StatusMatchesTracking ==
    \A w \in BotSet : (status[w] = "running") <=> runningProcesses[w]

\* C20: a worker whose status is 'stopped' has no install poll pending, and
\* no worker has more than one install poll pending.
C20_NoPollWhenStopped ==
    \A w \in BotSet :
        /\ status[w] = "stopped" => PollsFor(w) = 0
        /\ PollsFor(w) <= 1

\* the results with which an install reports a failure
FailureResults == {"noFolder", "noPackage", "launchError", "failed"}

\* the step invokes the continuation of invocation b
Reports(b) == completed'[b] # completed[b]

\* C11: the continuations of one installAll invocation count the reports:
\* whichever worker reports and in whatever order, each report raises the
\* counter by one, the progress shown is 25, 50, 75, 100 percent, and the
\* 'all complete' signal is set up by the fourth report and by no other.
C11_CountBased ==
    [][\A b \in 1..invoked :
          Reports(b) =>
              /\ completed'[b] = completed[b] + 1
              /\ completed'[b] \in 1..Len(botNames)
              /\ progressFill' = 25 * completed'[b]
              /\ last'.op \in {"installBot", "poll"} /\ last'.batch = b
              /\ (completed'[b] = Len(botNames)) <=>
                    (Cardinality(DoneTimers(timers', b))
                        = Cardinality(DoneTimers(timers, b)) + 1)]_vars

\* the first worker reports last: the other three have reported before it
C11_Witness ==
    /\ last.op = "poll" /\ last.bot = botNames[1] /\ last.batch = 1
    /\ completed[1] = Len(botNames)
    /\ progressFill = 100
    /\ DoneTimers(timers, 1) # {}

\* the pending install timers of invocation b, as <<worker, delay, age>>
PendingInstalls(q, b) ==
    {<<q[i].bot, q[i].delay, q[i].age>> : i \in InstallTimers(q, b)}

\* C12: a failed install of one worker (missing folder, missing
\* package.json, launch error, nonzero exit code) counts as a report and
\* leaves the batch going: the installs of the other workers not yet issued
\* stay scheduled at their offsets and the polls of the others stay alive.
C12_FailureDoesNotAbort ==
    [][\A b \in 1..invoked : \A w \in BotSet :
          (/\ last' # last
           /\ last'.op \in {"installBot", "poll"}
           /\ last'.bot = w
           /\ last'.batch = b
           /\ last'.res \in FailureResults) =>
              /\ completed'[b] = completed[b] + 1
              /\ {t \in PendingInstalls(timers', b) : t[1] # w}
                    = {t \in PendingInstalls(timers, b) : t[1] # w}
              /\ \A p \in BagToSet(polls) :
                    p.bot # w => CopiesIn(p, polls') = CopiesIn(p, polls)]_vars

\* the install of the first worker failed, the other three are still to come
C12_Witness ==
    /\ last = Event("poll", botNames[1], "failed", 1)
    /\ completed[1] = 1
    /\ Cardinality(InstallTimers(timers, 1)) = Len(botNames) - 1

\* C13: the 'all complete' signal tells a batch with a failed install from a
\* batch in which all four succeeded: the signal that follows a failed last
\* report is not the one shown after four successes.
C13_SignalTellsOutcome ==
    [][(/\ last'.op = "allComplete"
        /\ last.op \in {"installBot", "poll"}
        /\ last.batch = last'.batch
        /\ last.res \in FailureResults)
            => last' # Event("allComplete", "-", "alert", last'.batch)]_vars

-----------------------------------------------------------------------------
(* The configuration store *)

\* C4: updateBotSettings leaves every key of a worker's settings.json other
\* than server.ip, server.version and the messages, repeat and repeat-delay
\* of the chat-messages block as it was: a document that is readable before
\* and after a step has the same server.port, the same other key of the
\* chat-messages block, the same other key of utils and the same top-level
\* customField, and still holds the blocks it held.
C4_OtherKeysKept ==
    [][\A w \in BotSet :
          (settings[w].st = "ok" /\ settings'[w].st = "ok") =>
              /\ settings'[w].port = settings[w].port
              /\ settings'[w].chatExtra = settings[w].chatExtra
              /\ settings'[w].utilsOther = settings[w].utilsOther
              /\ settings'[w].customField = settings[w].customField
              /\ settings'[w].hasServer = settings[w].hasServer
              /\ settings'[w].hasChat = settings[w].hasChat]_vars

\* a save propagated the form's address into a document that still has its
\* customField 42 and its port
C4_Witness ==
    /\ cfgLast.op = "saveConfig"
    /\ cfgLast.res = "saved"
    /\ \E w \in BotSet :
          /\ settings[w].st = "ok"
          /\ settings[w].ip = serverForm.serverIP
          /\ settings[w].ip # SettingsDoc("ok", TRUE, TRUE, 1).ip
          /\ settings[w].customField = 42
          /\ settings[w].port = 25565

\* the document createDefaultConfig is to write
IsDefaults(file) ==
    /\ file.st = "ok"
    /\ DOMAIN file.accounts = {"MC1", "MC2", "MC3", "MC4"}
    /\ \A w \in DOMAIN file.accounts :
          file.accounts[w].type = "offline" /\ file.accounts[w].password = <<>>
    /\ file.server.present
    /\ file.server.ip = "play.pika-network.net"
    /\ file.server.version = "1.18.1"
    /\ Len(file.server.chatMessages) = 3
    /\ file.server.repeat = TRUE
    /\ file.server.repeatDelay = [whole |-> 6, tenths |-> 0]

\* C6: window.onload on an absent global_config.json writes the file once,
\* and the file then holds the four offline accounts MC1..MC4 with empty
\* passwords and the default server block (unless the write itself throws,
\* which createDefaultConfig catches and logs); on a file that exists,
\* loading writes nothing and the file is as it was.
C6_DefaultsWrittenOnce ==
    [][(~booted /\ booted') =>
          /\ (configFile.st = "absent") =>
                /\ cfgLast'.writes = 1
                /\ (cfgLast'.res = "created") => IsDefaults(configFile')
                /\ (cfgLast'.res # "created") => configFile'.st # "ok"
          /\ (configFile.st # "absent") =>
                /\ cfgLast'.writes = 0
                /\ configFile' = configFile]_vars

C6_Witness ==
    /\ booted
    /\ cfgLast.op = "onload"
    /\ cfgLast.res = "created"
    /\ cfgLast.writes = 1
    /\ IsDefaults(configFile)

\* a GlobalConfig as the data model describes it: accounts of the known
\* workers with a type among the three options, a host, a version and a
\* positive integer delay
WellFormed(file) ==
    /\ file.st = "ok"
    /\ DOMAIN file.accounts \subseteq BotSet
    /\ \A w \in DOMAIN file.accounts :
          file.accounts[w].type \in {"offline", "mojang", "microsoft"}
    /\ file.server.present
    /\ file.server.ip # ""
    /\ file.server.version # ""
    /\ file.server.repeatDelay.tenths = 0
    /\ file.server.repeatDelay.whole > 0

\* C7: the first saveConfig after window.onload, with nothing edited in
\* between, writes a well-formed global_config.json back as it was.
C7_RoundTrip ==
    [][(/\ cfgLast.op = "onload"
        /\ cfgLast'.op = "saveConfig"
        /\ cfgLast'.res = "saved"
        /\ WellFormed(configFile)) => configFile' = configFile]_vars

\* C15: window.onload on a malformed global_config.json returns, has logged
\* the parse error, writes nothing and leaves the file as it was.
C15_MalformedLeftAlone ==
    [][(~booted /\ configFile.st = "malformed") =>
          /\ booted'
          /\ cfgLast'.op = "onload"
          /\ cfgLast'.res = "parseError"
          /\ cfgLast'.writes = 0
          /\ configFile' = configFile]_vars

C15_Witness ==
    /\ booted
    /\ cfgLast.op = "onload"
    /\ cfgLast.res = "parseError"
    /\ configFile = MalformedFile

\* C16: a save that propagated leaves a log entry for every worker whose
\* settings.json does not exist (and creates no file for it).
C16_SkipLogged ==
    (cfgLast.op = "saveConfig" /\ cfgLast.res = "saved") =>
        \A w \in BotSet :
            settings[w].st = "absent" => cfgLast.botLogs[w] # "none"

\* C18: a save that ended with the success acknowledgment has persisted the
\* account of every worker.
C18_SuccessMeansAllSaved ==
    (cfgLast.op = "saveConfig" /\ cfgLast.alert = "success") =>
        (configFile.st = "ok" /\ DOMAIN configFile.accounts = BotSet)


\* C21: an install once issued is never cancelled: a stopBot or stopAllBots
\* that runs while polls are pending clears no poll, no timer and no count of
\* continuations, every continuation of an invocation is still accounted for
\* exactly once, and when the install processes exit the invocation still
\* reaches its 'all complete' signal.
C21_StopCancelsNoInstall ==
    /\ [][(last'.op \in {"stopBot", "stopAllBots"} /\ last' # last) =>
            /\ polls' = polls
            /\ timers' = timers
            /\ completed' = completed
            /\ signals' = signals]_vars
    /\ [](\A b \in 1..invoked :
            completed[b] + PollsOf(b) + Cardinality(InstallTimers(timers, b))
                = Len(botNames))
    /\ \A b \in 1..MaxBatches :
          (invoked >= b) ~> (invoked >= b /\ signals[b] = 1)

\* MC1 was stopped while the poll of its install of the first invocation is
\* pending
C21_Witness ==
    /\ last = Event("stopBot", botNames[1], "stopped", 0)
    /\ status[botNames[1]] = "stopped"
    /\ \E p \in BagToSet(polls) : p.bot = botNames[1] /\ p.cb = 1 /\ p.st = 0

AllStopped == \A w \in BotSet : status[w] = "stopped" /\ ~runningProcesses[w]

\* the step is a start command given by the user: startAllBots, or startBot
\* by its button (a start fired by a timer takes the timer off the queue)
NewStartCommand ==
    \/ last'.op = "startAllBots"
    \/ last'.op = "startBot" /\ timers' = timers

\* C22 as stated, for a stopAllBots all of whose kill commands were issued
\* without an error: when it has returned every status is 'stopped' and no
\* worker is tracked, and this stays so until a new start command is given,
\* also when a staggered start of an earlier startAllBots is still pending.
C22_StopAllStaysStopped ==
    /\ []((last.op = "stopAllBots" /\ last.failed = {}) => AllStopped)
    /\ [][(last.op = "stopAllBots" /\ last.failed = {} /\ ~NewStartCommand)
            => AllStopped']_vars

StartTimersOf(q, b) == {i \in 1..Len(q) : q[i].kind = "start" /\ q[i].batch = b}

StartInvocations(q) == {q[i].batch : i \in {j \in 1..Len(q) : q[j].kind = "start"}}

\* the pending start timer of invocation b for worker w is gone after the step
StartIssued(b, w) ==
    /\ \E i \in StartTimersOf(timers, b) : timers[i].bot = w
    /\ ~ \E i \in StartTimersOf(timers', b) : timers'[i].bot = w

\* C23: a startAllBots invocation schedules one start per worker; the start
\* of the worker at index i is issued no earlier than i x 500 ms after the
\* invocation and not before the start of a worker of a smaller index; each
\* scheduled start is issued once, by a startBot for its worker; and a
\* worker that is tracked as running when its timer fires is left as it is.
C23_StartStagger ==
    /\ [](\A b \in StartInvocations(timers) : \A w \in BotSet :
           Cardinality({i \in StartTimersOf(timers, b) : timers[i].bot = w}) <= 1)
    /\ [][/\ Len(timers') > Len(timers) =>
              \E b \in StartInvocations(timers') \ StartInvocations(timers) :
                  /\ Cardinality(StartTimersOf(timers', b)) = Len(botNames)
                  /\ {timers'[i].bot : i \in StartTimersOf(timers', b)} = BotSet
                  /\ Len(timers') = Len(timers) + Len(botNames)
          /\ Len(timers') < Len(timers) =>
                  /\ timers' = Tail(timers)
                  /\ StartIssued(Head(timers).batch, Head(timers).bot)
          /\ \A b \in StartInvocations(timers) : \A w \in BotSet :
                StartIssued(b, w) =>
                    /\ \A i \in StartTimersOf(timers, b) :
                          timers[i].bot = w =>
                              timers[i].age >= (IndexOf(w) - 1) * StartStaggerMs
                    /\ \A i \in StartTimersOf(timers, b) :
                          IndexOf(timers[i].bot) >= IndexOf(w)
                    /\ last'.op = "startBot" /\ last'.bot = w
                    /\ runningProcesses[w] =>
                          /\ last'.res \in {"noFolder", "alreadyRunning"}
                          /\ status' = status
                          /\ runningProcesses' = runningProcesses
                          /\ windows' = windows]_vars

\* the timer of MC2 fired while MC2 was tracked as running, and the starts of
\* MC3 and MC4 are still pending
C23_Witness ==
    /\ last = Event("startBot", botNames[2], "alreadyRunning", 0)
    /\ {timers[i].bot : i \in StartTimers} = {botNames[3], botNames[4]}
    /\ runningProcesses[botNames[1]]

\* C24: a startBot(w) that finds no folder, or whose launch command fails,
\* leaves every status, every tracking flag and every bot window as they
\* were; and a startBot(w) is refused as 'already running' only when w is
\* tracked, which a failed start never brings about.
C24_FailedStartNoEffect ==
    [][\A w \in BotSet :
          /\ (Ran("startBot", w) /\ last'.res \in {"noFolder", "startError"}) =>
                /\ status' = status
                /\ runningProcesses' = runningProcesses
                /\ windows' = windows
                /\ polls' = polls
          /\ (Ran("startBot", w) /\ last'.res = "alreadyRunning") =>
                runningProcesses[w]
          /\ (~runningProcesses[w] /\ runningProcesses'[w]) =>
                (last'.op = "startBot" /\ last'.bot = w /\ last'.res = "started")]_vars

\* the launch of MC1 failed, and MC1 is neither running nor tracked
C24_Witness ==
    /\ last = Event("startBot", botNames[1], "startError", 0)
    /\ status[botNames[1]] = "stopped"
    /\ ~runningProcesses[botNames[1]]

\* C25: once a startBot(w) has succeeded w stays tracked until a stop
\* command: the exit of the bot by itself changes no tracking flag and no
\* status, a startBot(w) while w is tracked launches nothing even though the
\* bot is gone, the tracking of w is cleared by nothing but stopBot(w) (alone
\* or within stopAllBots), and a startBot(w) after that opens a new window.
C25_TrackedUntilStop ==
    [][\A w \in BotSet :
          /\ (windows[w] /\ ~windows'[w] /\ last' = last) =>
                (runningProcesses' = runningProcesses /\ status' = status)
          /\ (Ran("startBot", w) /\ runningProcesses[w]) =>
                /\ last'.res \in {"noFolder", "alreadyRunning"}
                /\ windows' = windows
                /\ runningProcesses'[w]
          /\ (runningProcesses[w] /\ ~runningProcesses'[w]) =>
                \/ last'.op = "stopBot" /\ last'.bot = w
                \/ last'.op = "stopAllBots" /\ w \notin last'.failed
          /\ (Ran("stopBot", w) /\ last'.res = "stopped") =>
                ~runningProcesses'[w]
          /\ (Ran("startBot", w) /\ ~runningProcesses[w] /\ last'.res = "started") =>
                (windows'[w] /\ runningProcesses'[w])]_vars

\* a start of MC1 was refused as 'already running' although its bot is gone
C25_Witness ==
    /\ last = Event("startBot", botNames[1], "alreadyRunning", 0)
    /\ ~windows[botNames[1]]
    /\ runningProcesses[botNames[1]]
    /\ status[botNames[1]] = "running"

\* C26: among MC1..MC4 the filter of the kill command of stopBot(w) matches
\* the window title startBot(v) assigns exactly when v = w, and a stopBot(w)
\* leaves the bot window of every other worker as it was.
C26_KillOwnWindow ==
    [][\A w \in BotSet :
          Ran("stopBot", w) =>
              /\ \A v \in BotSet \ {w} : windows'[v] = windows[v]
              /\ last'.res = "stopped" =>
                    /\ ~windows'[w]
                    /\ \A v \in BotSet :
                          Matches(WindowTitle(v), KillPattern(w)) <=> v = w]_vars

\* MC1 was stopped while the bots of MC1 and MC2 were running: the window of
\* MC2 is still there
C26_Witness ==
    /\ last = Event("stopBot", botNames[1], "stopped", 0)
    /\ ~windows[botNames[1]]
    /\ windows[botNames[2]]
    /\ runningProcesses[botNames[2]]

Quiet ==
    /\ \A w \in BotSet : status[w] = "stopped"
    /\ polls = EmptyBag
    /\ \A b \in 1..invoked : completed[b] = Len(botNames) /\ signals[b] = 1

\* C27: when every install process exits and the timers fire, an installAll
\* invocation ends: every status is 'stopped' again, the counter is at 4 and
\* the signal has fired. While an install process of the invocation has not
\* exited (or its exit has not been seen) the signal is neither pending nor
\* shown, and nothing but a poll tick of that worker, or an installBot of
\* that worker that fails, takes the worker out of 'installing': there is no
\* timeout.
C27_InstallAllTerminates ==
    /\ \A b \in 1..MaxBatches :
          (invoked >= b) ~>
              (invoked >= b /\ signals[b] = 1 /\ completed[b] = Len(botNames))
    /\ (invoked >= 1) ~> Quiet
    /\ [](\A p \in BagToSet(polls) :
            p.cb # 0 =>
                /\ signals[p.cb] = 0
                /\ DoneTimers(timers, p.cb) = {}
                /\ completed[p.cb] < Len(botNames))
    /\ [][\A w \in BotSet :
            (status[w] = "installing" /\ status'[w] # "installing") =>
                \/ /\ last'.op = "poll" /\ last'.bot = w
                   /\ BagCardinality(polls') < BagCardinality(polls)
                \/ /\ last'.op = "installBot" /\ last'.bot = w
                   /\ last'.res \in FailureResults]_vars

\* the install of MC4 has not exited: MC4 is 'installing', three have
\* reported, and no signal is pending or shown
C27_Witness ==
    /\ invoked = 1
    /\ completed[1] = Len(botNames) - 1
    /\ status[botNames[4]] = "installing"
    /\ \E p \in BagToSet(polls) : p.bot = botNames[4] /\ p.cb = 1 /\ p.st = 0
    /\ signals[1] = 0

\* C28: after a saveConfig that saved, every settings.json that parsed, held
\* the server block and the chat-messages block, and was rewritten has its
\* address, version, messages, repeat flag and repeat delay equal to those of
\* the shared document as just written, the messages in the same order.
C28_PropagatedEqualsShared ==
    [][(cfgLast'.op = "saveConfig" /\ cfgLast'.res = "saved") =>
          /\ configFile'.st = "ok"
          /\ \A w \in BotSet :
                (Propagates(settings[w]) /\ cfgLast'.botLogs[w] = "success") =>
                    /\ settings'[w].st = "ok"
                    /\ settings'[w].ip = configFile'.server.ip
                    /\ settings'[w].version = configFile'.server.version
                    /\ settings'[w].messages = configFile'.server.chatMessages
                    /\ settings'[w].repeat = configFile'.server.repeat
                    /\ settings'[w].repeatDelay = configFile'.server.repeatDelay]_vars

\* the settings.json of MC1 holds the two messages of the form, in order, and
\* the delay of the form
C28_Witness ==
    /\ cfgLast.op = "saveConfig"
    /\ cfgLast.res = "saved"
    /\ cfgLast.botLogs[botNames[1]] = "success"
    /\ settings[botNames[1]].messages = <<<<"/a">>, <<"/b">>>>
    /\ settings[botNames[1]].repeatDelay = Num(3)
    /\ configFile.server.chatMessages = <<<<"/a">>, <<"/b">>>>

\* C29: a saveBotConfig(w) that saves sets accounts[w] to the fields of w and
\* leaves the account of every other worker and the server block as they
\* were; when the shared document is absent or malformed, or the fields of w
\* are missing, nothing is written and the file stays as it was.
C29_SaveBotFrame ==
    [][\A w \in BotSet :
          (cfgLast'.op = "saveBotConfig" /\ cfgLast'.bot = w) =>
              /\ cfgLast'.res = "saved" =>
                    /\ configFile.st = "ok" /\ configFile'.st = "ok"
                    /\ configFile'.server = configFile.server
                    /\ DOMAIN configFile'.accounts = DOMAIN configFile.accounts \cup {w}
                    /\ \A v \in DOMAIN configFile.accounts \ {w} :
                          configFile'.accounts[v] = configFile.accounts[v]
                    /\ configFile'.accounts[w] = fields[w]
              /\ cfgLast'.res \in {"readError", "parseError", "noFields"} =>
                    /\ configFile' = configFile
                    /\ cfgLast'.writes = 0
              /\ settings' = settings]_vars

\* MC1 was saved with edited fields: the account of MC2 and the server block
\* are those of the default document
C29_Witness ==
    /\ cfgLast.op = "saveBotConfig" /\ cfgLast.bot = botNames[1]
    /\ cfgLast.res = "saved"
    /\ configFile.st = "ok"
    /\ configFile.accounts[botNames[1]] = EditedAccount
    /\ configFile.accounts[botNames[2]] = DefaultAccounts[botNames[2]]
    /\ configFile.server = DefaultServer

\* C30: on a page loaded from a document with the accounts of MC1..MC4,
\* after any sequence of saveConfig and saveBotConfig the shared document,
\* whenever it can be read, holds an account for each of MC1..MC4 and a
\* server block.
C30_AccountsKept ==
    configFile.st = "ok" =>
        /\ BotSet \subseteq DOMAIN configFile.accounts
        /\ configFile.server.present

\* a saveConfig with an edited form after a saveBotConfig: the document holds
\* the edited account of MC1, the server of the form and all four accounts
C30_Witness ==
    /\ cfgLast.op = "saveConfig" /\ cfgLast.res = "saved"
    /\ configFile.st = "ok"
    /\ configFile.server.ip = "mc.example.org"
    /\ configFile.accounts[botNames[1]] = EditedAccount
    /\ DOMAIN configFile.accounts = BotSet

\* a save that saved follows a save that saved, and the document it writes
\* lacks an account value the earlier one wrote
LostUpdateStep == LostUpdate(cfgLast, configFile, configFile', cfgLast'.res)

C32_SharedFirstThenEach ==
    [][cfgLast'.op = "saveConfig" =>
          /\ cfgLast'.res \in {"noServerFields", "saveError"} =>
                settings' = settings
          /\ cfgLast'.res = "noServerFields" => configFile' = configFile
          /\ cfgLast'.res = "saved" =>
                /\ configFile'.st = "ok"
                /\ \A w \in BotSet :
                      IF cfgLast'.botLogs[w] = "success"
                      THEN settings'[w] = mergeServer(settings[w], configFile'.server)
                      ELSE settings'[w] \in {settings[w], MalformedSettings(settings[w])}]_vars

\* the settings.json of MC1 could not be updated, that of MC2 was
C32_Witness ==
    /\ cfgLast.op = "saveConfig" /\ cfgLast.res = "saved"
    /\ cfgLast.botLogs[botNames[1]] = "error"
    /\ cfgLast.botLogs[botNames[2]] = "success"
    /\ settings[botNames[2]].st = "ok"
    /\ settings[botNames[2]].ip = configFile.server.ip
    /\ settings[botNames[2]].ip # SettingsDoc("ok", TRUE, TRUE, 1).ip

FiveFields(doc) ==
    <<doc.ip, doc.version, doc.messages, doc.repeat, doc.repeatDelay>>

\* C33: the propagation to one worker writes all five values or none: a
\* settings.json that is malformed or lacks the server block or the
\* chat-messages block is left exactly as it was, and a document that is
\* changed and readable afterwards holds all five values of the server
\* block just saved.
C33_AllOrNothing ==
    [][\A w \in BotSet :
          /\ ~Propagates(settings[w]) => settings'[w] = settings[w]
          /\ (settings'[w] # settings[w] /\ settings'[w].st = "ok") =>
                /\ cfgLast'.op = "saveConfig" /\ cfgLast'.res = "saved"
                /\ FiveFields(settings'[w]) =
                      <<configFile'.server.ip, configFile'.server.version,
                        configFile'.server.chatMessages, configFile'.server.repeat,
                        configFile'.server.repeatDelay>>]_vars

\* the settings.json of MC1 has the server block but no chat-messages block:
\* after the save it is as it was, while that of MC2 holds the new values
C33_Witness ==
    /\ cfgLast.op = "saveConfig" /\ cfgLast.res = "saved"
    /\ settings[botNames[1]] = SettingsDoc("ok", TRUE, FALSE, 1)
    /\ cfgLast.botLogs[botNames[1]] = "error"
    /\ settings[botNames[2]].st = "ok"
    /\ settings[botNames[2]].version = configFile.server.version
    /\ settings[botNames[2]].version # SettingsDoc("ok", TRUE, TRUE, 1).version

\* C34 as stated, and more lenient in that a failing installBot may set
\* 'stopped' from any status: every status is 'stopped', 'installing' or
\* 'running', and a status changes only from 'stopped' or 'running' to
\* 'installing' by installBot, from 'installing' to 'stopped' by the poll
\* that sees the exit or by a launch failure, to 'running' by a successful
\* startBot of an untracked worker, and to 'stopped' by stopBot.
C34_StatusTransitions ==
    /\ [](\A w \in BotSet : status[w] \in {"stopped", "installing", "running"})
    /\ [][\A w \in BotSet :
            status'[w] # status[w] =>
                \/ /\ status[w] \in {"stopped", "running"}
                   /\ status'[w] = "installing"
                   /\ last'.op = "installBot" /\ last'.bot = w
                \/ /\ status[w] = "installing"
                   /\ status'[w] = "stopped"
                   /\ last'.op = "poll" /\ last'.bot = w
                \/ /\ status'[w] = "stopped"
                   /\ last'.op = "installBot" /\ last'.bot = w
                   /\ last'.res \in FailureResults
                \/ /\ status'[w] = "running"
                   /\ last' = Event("startBot", w, "started", 0)
                   /\ ~runningProcesses[w]
                \/ /\ status'[w] = "stopped"
                   /\ last'.op = "stopBot" /\ last'.bot = w]_vars

\* C35 as stated: the progress shown stays within 0..100, is the rounded
\* percentage of the reports of an invocation, and does not go down while
\* an invocation has not shown its 'all complete' signal, also when
\* installAll is invoked again before that.
C35_ProgressMonotone ==
    /\ [](progressFill \in 0..100)
    /\ [](invoked >= 1 =>
            \E b \in 1..invoked : progressFill = Percent(completed[b]))
    /\ [][(\E b \in 1..invoked : signals[b] = 0) =>
            progressFill' >= progressFill]_vars

\* C36: smoothChartData returns a sequence as long as its argument, with
\* the same first and last element; an argument of at most two elements is
\* returned as it is; and the elements of the argument are after the call
\* what they were before.
C36_SmoothKeepsEnds ==
    (chart.called /\ ~chart.given.null) =>
        /\ chart.data = chart.given
        /\ ~chart.out.null
        /\ Len(chart.out.items) = Len(chart.given.items)
        /\ Len(chart.given.items) >= 1 =>
              /\ chart.out.items[1] = chart.given.items[1]
              /\ chart.out.items[Len(chart.out.items)]
                    = chart.given.items[Len(chart.given.items)]
        /\ Len(chart.given.items) <= 2 => (chart.same /\ chart.out = chart.given)

\* four points were smoothed with the default factor: the second point is
\* 0.8 x 0 + 0.2 x 1, and the argument still holds 1 there
C36_Witness ==
    /\ chart.called
    /\ chart.num = 1
    /\ chart.given = Array(<<0, ChartScale, 0, ChartScale>>)
    /\ chart.out.items[2] = ChartScale \div 5
    /\ chart.out.items[3] = (4 * ChartScale) \div 25
    /\ chart.data.items[2] = ChartScale

====
